---- MODULE Spec2Model ----
(***************************************************************************)
(* Model of tinycbor's diagnostic pretty-printer, cborpretty.c (TizenRT    *)
(* copy): value_to_pretty, container_to_pretty, utf8EscapedDump, hexDump.  *)
(* The decode iterator (the cbor_value functions) and the output sink      *)
(* (fprintf on a FILE) are the two collaborators of the file; they are     *)
(* modelled from their contracts.  Text is a sequence of one-character     *)
(* strings, a byte is a number in 0..255, a 64-bit unsigned value is four  *)
(* 16-bit limbs, most significant first.                                   *)
(***************************************************************************)
EXTENDS Integers, Sequences, FiniteSets, TLC

(***************************************************************************)
(* 64-bit unsigned arithmetic on limbs.                                    *)
(***************************************************************************)
Limb == 65536

U64(n) == <<0, 0, 0, n>>

U64Max == <<Limb - 1, Limb - 1, Limb - 1, Limb - 1>>

IsZero64(v) == v = <<0, 0, 0, 0>>

\* ++val on a uint64_t: the carry runs through the limbs and is dropped at
\* the top (arithmetic modulo 2^64).
Inc64(v) ==
  IF v[4] + 1 < Limb THEN <<v[1], v[2], v[3], v[4] + 1>>
  ELSE IF v[3] + 1 < Limb THEN <<v[1], v[2], v[3] + 1, 0>>
  ELSE IF v[2] + 1 < Limb THEN <<v[1], v[2] + 1, 0, 0>>
  ELSE <<(v[1] + 1) % Limb, 0, 0, 0>>

\* Quotient and remainder of a 64-bit value by ten (schoolbook division).
DivMod10(v) ==
  LET c1 == v[1]
      c2 == (c1 % 10) * Limb + v[2]
      c3 == (c2 % 10) * Limb + v[3]
      c4 == (c3 % 10) * Limb + v[4]
  IN  [q |-> <<c1 \div 10, c2 \div 10, c3 \div 10, c4 \div 10>>, r |-> c4 % 10]

Digits == <<"0", "1", "2", "3", "4", "5", "6", "7", "8", "9">>

HexDigitsUpper == Digits \o <<"A", "B", "C", "D", "E", "F">>

\* The decimal digits of a 64-bit unsigned value (what %llu writes).
RECURSIVE Dec64(_)
Dec64(v) ==
  LET d == DivMod10(v)
  IN  IF IsZero64(d.q) THEN <<Digits[d.r + 1]>>
      ELSE Dec64(d.q) \o <<Digits[d.r + 1]>>

\* The upper-case hexadecimal digits of a 32-bit value (what %X writes).
RECURSIVE HexUpper(_)
HexUpper(n) ==
  IF n < 16 THEN <<HexDigitsUpper[n + 1]>>
  ELSE HexUpper(n \div 16) \o <<HexDigitsUpper[(n % 16) + 1]>>

(***************************************************************************)
(* The output sink: fprintf.  A format string is interpreted as the C      *)
(* library does: ordinary characters are copied, a conversion              *)
(* specification is % flags width .precision length conversion-character.  *)
(* A specification that is not one of the standard's is undefined          *)
(* behaviour; the two outcomes modelled are those of the common C          *)
(* libraries: "einval" (the call returns a negative value and writes       *)
(* nothing) and "bsd" (an unknown conversion character is written as if by *)
(* %c, and a specification cut short by the end of the format ends the     *)
(* output).                                                                *)
(***************************************************************************)
LibcKinds == {"einval", "bsd"}

FlagChars == {"-", "+", " ", "#", "0"}

LengthChars == {"l", "h", "j", "z", "t", "L"}

\* An argument of fprintf: v is its value when an integer, s when a character,
\* a string or a double (then s is the text %g gives it).
ArgInt(v) == [v |-> v, s |-> <<>>]

ArgStr(s) == [v |-> U64(0), s |-> s]

RECURSIVE SkipChars(_, _, _)
SkipChars(fmt, i, set) ==
  IF i <= Len(fmt) /\ fmt[i] \in set THEN SkipChars(fmt, i + 1, set) ELSE i

RECURSIVE DigitsValue(_, _, _)
DigitsValue(fmt, i, j) ==
  IF i >= j THEN 0
  ELSE LET d == CHOOSE k \in 0..9 : Digits[k + 1] = fmt[j - 1]
       IN  10 * DigitsValue(fmt, i, j - 1) + d

RECURSIVE Fill(_, _)
Fill(c, n) == IF n <= 0 THEN <<>> ELSE <<c>> \o Fill(c, n - 1)

Pad(text, width, zero) ==
  Fill(IF zero THEN "0" ELSE " ", width - Len(text)) \o text

DigitChars == {Digits[k] : k \in 1..10}

\* One conversion specification starting at fmt[i] = "%": where its parts end.
Directive(fmt, i) ==
  LET f == SkipChars(fmt, i + 1, FlagChars)
      w == SkipChars(fmt, f, DigitChars)
      p == IF w <= Len(fmt) /\ fmt[w] = "."
           THEN SkipChars(fmt, w + 1, DigitChars) ELSE w
      m == SkipChars(fmt, p, LengthChars)
  IN  [zero |-> \E k \in (i + 1)..(f - 1) : fmt[k] = "0",
       width |-> DigitsValue(fmt, f, w),
       conv |-> m,
       plain |-> m = i + 1]

RECURSIVE FormatFrom(_, _, _, _, _, _)
FormatFrom(libc, fmt, i, args, a, acc) ==
  IF i > Len(fmt) THEN [r |-> Len(acc), text |-> acc]
  ELSE IF fmt[i] # "%"
  THEN FormatFrom(libc, fmt, i + 1, args, a, acc \o <<fmt[i]>>)
  ELSE
    LET d == Directive(fmt, i)
        c == IF d.conv <= Len(fmt) THEN fmt[d.conv] ELSE "NUL"
        next == d.conv + 1
    IN  CASE c = "%" /\ d.plain ->
               FormatFrom(libc, fmt, next, args, a, acc \o <<"%">>)
          [] c \in {"c", "s", "g"} /\ a <= Len(args) ->
               FormatFrom(libc, fmt, next, args, a + 1,
                          acc \o Pad(args[a].s, d.width, FALSE))
          [] c = "u" /\ a <= Len(args) ->
               FormatFrom(libc, fmt, next, args, a + 1,
                          acc \o Pad(Dec64(args[a].v), d.width, d.zero))
          [] c = "X" /\ a <= Len(args) ->
               FormatFrom(libc, fmt, next, args, a + 1,
                          acc \o Pad(HexUpper(args[a].v[3] * Limb + args[a].v[4]),
                                     d.width, d.zero))
          [] OTHER ->
               \* not a conversion specification of the C standard
               IF libc = "einval" THEN [r |-> -1, text |-> <<>>]
               ELSE IF c = "NUL" THEN [r |-> Len(acc), text |-> acc]
               ELSE FormatFrom(libc, fmt, next, args, a,
                               acc \o Pad(<<c>>, d.width, d.zero))

\* fprintf(out, fmt, args...): r is the value returned (negative on failure),
\* text what reaches the sink.
Fprintf(libc, fmt, args) == FormatFrom(libc, fmt, 1, args, 1, <<>>)

(***************************************************************************)
(* The format strings of cborpretty.c.  The PRI macros are defined empty   *)
(* at the head of the file, after <inttypes.h>, so every format built from *)
(* one of them ends its conversion specification without a conversion      *)
(* character.                                                              *)
(***************************************************************************)
PRIu64 == <<>>

PRIx8 == <<>>

PRIu8 == <<>>

PRIX32 == <<>>

DBL_DECIMAL_DIG_STR == <<"1", "7">>

FmtUnsigned == <<"%">> \o PRIu64

FmtNegative == <<"-", "%">> \o PRIu64

FmtNegativeOverflow ==
  <<"-", "1", "8", "4", "4", "6", "7", "4", "4", "0", "7", "3", "7", "0", "9",
    "5", "5", "1", "6", "1", "6">>

FmtHexByte == <<"%", "0", "2">> \o PRIx8

FmtTag == <<"%">> \o PRIu64 \o <<"(">>

FmtSimple == <<"s", "i", "m", "p", "l", "e", "(", "%">> \o PRIu8 \o <<")">>

FmtUtf16 == <<"\\", "u", "%", "0", "4">> \o PRIX32

FmtSurrogates == FmtUtf16 \o FmtUtf16

FmtChar == <<"%", "c">>

FmtEscaped == <<"\\", "%", "c">>

FmtString == <<"%", "s">>

FmtFloatIntegral == <<"%", "s", "%">> \o PRIu64 \o <<".", "%", "s">>

FmtFloatGeneral == <<"%", ".">> \o DBL_DECIMAL_DIG_STR \o <<"g", "%", "s">>

TxtInvalid == <<"i", "n", "v", "a", "l", "i", "d">>

TxtNull == <<"n", "u", "l", "l">>

TxtUndefined == <<"u", "n", "d", "e", "f", "i", "n", "e", "d">>

TxtTrue == <<"t", "r", "u", "e">>

TxtFalse == <<"f", "a", "l", "s", "e">>

TxtIndefinite == <<"_", " ">>

TxtComma == <<",", " ">>

TxtColon == <<":", " ">>

TxtQuote == <<"\"">>

TxtByteOpen == <<"h", "'">>

TxtByteClose == <<"'">>

\* A variant that starts with the separator already set.
InitialCommaSet == <<",", " ">>

\* const char *comma = "": the separator before the first element.
InitialComma == <<>>

OpenBracket(type) == IF type = "CborArrayType" THEN <<"[">> ELSE <<"{">>

CloseBracket(type) == IF type = "CborArrayType" THEN <<"]">> ELSE <<"}">>

(***************************************************************************)
(* Error codes.                                                            *)
(***************************************************************************)
CborNoError == "CborNoError"

CborErrorIO == "CborErrorIO"

CborErrorInvalidUtf8TextString == "CborErrorInvalidUtf8TextString"

CborErrorUnknownType == "CborErrorUnknownType"

\* What a failing iterator operation may report.
IterErrors == {"CborErrorUnexpectedEOF", "CborErrorOutOfMemory"}

(***************************************************************************)
(* The encoded input: a sequence of items in encoded order.  A container   *)
(* header carries its declared length (pairs, for a map) or Indefinite; an *)
(* indefinite container ends with a Break item.                            *)
(***************************************************************************)
Indefinite == -1

NoFloat == [cls |-> "none", whole |-> FALSE, g |-> <<>>]

Item(t, neg, v, b, len, f) ==
  [t |-> t, neg |-> neg, v |-> v, b |-> b, len |-> len, f |-> f]

UInt(n) == Item("CborIntegerType", FALSE, n, <<>>, 0, NoFloat)

NInt(n) == Item("CborIntegerType", TRUE, n, <<>>, 0, NoFloat)

Bytes(b) == Item("CborByteStringType", FALSE, U64(0), b, 0, NoFloat)

Text(b) == Item("CborTextStringType", FALSE, U64(0), b, 0, NoFloat)

Array(len) == Item("CborArrayType", FALSE, U64(0), <<>>, len, NoFloat)

Map(len) == Item("CborMapType", FALSE, U64(0), <<>>, len, NoFloat)

Tag(n) == Item("CborTagType", FALSE, n, <<>>, 0, NoFloat)

Simple(n) == Item("CborSimpleType", FALSE, U64(n), <<>>, 0, NoFloat)

Boolean(b) == Item("CborBooleanType", FALSE, U64(IF b THEN 1 ELSE 0), <<>>, 0, NoFloat)

Null == Item("CborNullType", FALSE, U64(0), <<>>, 0, NoFloat)

Undefined == Item("CborUndefinedType", FALSE, U64(0), <<>>, 0, NoFloat)

Invalid == Item("CborInvalidType", FALSE, U64(0), <<>>, 0, NoFloat)

Break == Item("Break", FALSE, U64(0), <<>>, 0, NoFloat)

\* A floating-point item of the given width: its class, its sign, whether
\* fabs(val) is a whole number below 2^64 (then v is that number), and the
\* text %.17g gives the value.
Float(t, cls, neg, whole, v, g) ==
  Item(t, neg, v, <<>>, 0, [cls |-> cls, whole |-> whole, g |-> g])

ContainerTypes == {"CborArrayType", "CborMapType"}

StringTypes == {"CborByteStringType", "CborTextStringType"}

FloatTypes == {"CborHalfFloatType", "CborFloatType", "CborDoubleType"}

LiteralTypes == {"CborNullType", "CborUndefinedType", "CborBooleanType"}

(***************************************************************************)
(* Bounds of the model, and the inputs drawn in the initial state.         *)
(***************************************************************************)
\* The most items (headers, leaves, breaks) of a generated nested value.
MaxItems == 3

\* The most bytes of a generated text string.
MaxTextLen == 3

\* The leaves generated inside containers and tags.
ChildLeaves == {UInt(U64(1)), Text(<<97>>), Invalid}

RECURSIVE ValuesOfSize(_), ValueRuns(_, _)
\* Every well-formed encoded value of exactly n items.
ValuesOfSize(n) ==
  IF n <= 0 THEN {}
  ELSE (IF n = 1 THEN {<<l>> : l \in ChildLeaves} ELSE {})
       \cup UNION {{<<Array(k)>> \o s : s \in ValueRuns(k, n - 1)} : k \in 0..(n - 1)}
       \cup UNION {{<<Map(k)>> \o s : s \in ValueRuns(2 * k, n - 1)} : k \in 0..(n - 1)}
       \cup UNION {{<<Array(Indefinite)>> \o s \o <<Break>> : s \in ValueRuns(k, n - 2)}
                   : k \in 0..(n - 1)}
       \cup UNION {{<<Map(Indefinite)>> \o s \o <<Break>> : s \in ValueRuns(2 * k, n - 2)}
                   : k \in 0..(n - 1)}
       \cup {<<Tag(U64(0))>> \o s : s \in ValuesOfSize(n - 1)}

\* Every run of k values that takes exactly n items.
ValueRuns(k, n) ==
  IF k = 0 THEN (IF n = 0 THEN {<<>>} ELSE {})
  ELSE IF n < k THEN {}
  ELSE UNION {{a \o s : a \in ValuesOfSize(m), s \in ValueRuns(k - 1, n - m)}
              : m \in 1..(n - k + 1)}

NestedInputs == UNION {ValuesOfSize(n) : n \in 1..MaxItems}

\* Integers at the edges of the 64-bit range.
IntegerInputs ==
  {<<UInt(v)>> : v \in {U64(0), U64(10), <<0, 1, 0, 0>>, U64Max}}
  \cup {<<NInt(v)>> : v \in {U64(0), U64(9), <<0, 0, Limb - 1, Limb - 1>>,
                             <<Limb - 1, Limb - 1, Limb - 1, Limb - 2>>, U64Max}}

LeafInputs ==
  {<<Simple(255)>>, <<Simple(0)>>, <<Boolean(TRUE)>>, <<Boolean(FALSE)>>,
   <<Null>>, <<Undefined>>, <<Invalid>>,
   <<Bytes(<<>>)>>, <<Bytes(<<1, 171>>)>>,
   <<Float("CborDoubleType", "finite", FALSE, TRUE, U64(2), <<"2">>)>>,
   <<Float("CborFloatType", "finite", TRUE, TRUE, U64(3), <<"-", "3">>)>>,
   <<Float("CborHalfFloatType", "finite", FALSE, FALSE, U64(0), <<"1", ".", "5">>)>>,
   <<Float("CborHalfFloatType", "nan", FALSE, FALSE, U64(0), <<"n", "a", "n">>)>>,
   <<Float("CborFloatType", "inf", TRUE, FALSE, U64(0), <<"-", "i", "n", "f">>)>>,
   <<Float("CborDoubleType", "inf", FALSE, FALSE, U64(0), <<"i", "n", "f">>)>>}

\* Bytes that make up the generated text strings: 'A', '"', line feed, the
\* two bytes of U+00E9, a three-byte lead.
TextBytes == {65, 34, 10, 195, 169, 224}

RECURSIVE SeqsUpTo(_, _)
SeqsUpTo(S, n) ==
  IF n = 0 THEN {<<>>}
  ELSE LET shorter == SeqsUpTo(S, n - 1)
       IN  shorter \cup {Append(s, x) : s \in {t \in shorter : Len(t) = n - 1}, x \in S}

\* Four-byte forms around the edges of [0x10000, 0x10FFFF], U+1F600 among them.
FourByteTexts ==
  {<<l, a, b, c>> : l \in {240, 244}, a \in {128, 143, 144, 159}, b \in {128, 152},
                    c \in {128, 191}}

\* Ill-formed sequences: a lone continuation byte, the overlong forms, a
\* surrogate, a lead with no continuation, forms cut short, a value above
\* 0x10FFFF, the bytes 0xC1 and 0xF5.
IllFormed ==
  {<<128>>, <<193, 128>>, <<224, 128, 128>>, <<240, 128, 128, 128>>,
   <<237, 160, 128>>, <<224, 65>>, <<224, 160>>, <<240, 159, 152>>,
   <<244, 144, 128, 128>>, <<245, 128, 128, 128>>, <<195>>}

\* An ill-formed sequence at the start, after an ASCII character, after a
\* two-byte character, and before an ASCII character.
IllFormedTexts ==
  {pre \o bad \o post : pre \in {<<>>, <<65>>, <<195, 169>>}, bad \in IllFormed,
                        post \in {<<>>, <<65>>}}

\* Lead bytes at the edges of the classification, each followed by three
\* continuation bytes.
LeadBytes == {128, 191, 192, 193, 194, 222, 223, 224, 239, 240, 244, 245, 255}

LeadTexts == {<<l, 160, 128, 128>> : l \in LeadBytes}

\* Two-, three- and four-byte forms whose last byte is at the edges of the
\* continuation range.
LastBytes == {127, 128, 190, 191, 192}

LastByteTexts ==
  {<<195, c>> : c \in LastBytes} \cup {<<226, 130, c>> : c \in LastBytes}
  \cup {<<240, 159, 152, c>> : c \in LastBytes}

\* One character below 0x80: the controls, the escaped ones, the edges of
\* the printable range, DEL.
AsciiBytes == {0, 1, 8, 9, 10, 11, 12, 13, 31, 32, 34, 65, 92, 126, 127}

AsciiTexts == {<<c>> : c \in AsciiBytes} \cup {<<65, 1, 66>>, <<9, 127>>}

TextInputs ==
  {<<Text(b)>> : b \in SeqsUpTo(TextBytes, MaxTextLen) \cup FourByteTexts
                       \cup IllFormedTexts \cup LeadTexts \cup LastByteTexts
                       \cup AsciiTexts}

\* Named inputs: the specification's examples, and values nested deeper than
\* MaxItems allows.
ExampleInputs ==
  {<<Array(Indefinite), UInt(U64(1)), UInt(U64(2)), Break>>,
   <<Map(2), UInt(U64(1)), Text(<<97>>), UInt(U64(2)), Text(<<98>>)>>,
   <<Tag(U64(0)), Text(<<50, 48, 49, 51>>)>>,
   <<Tag(U64Max), Tag(U64(1)), Null>>,
   <<Array(2), Array(1), Array(0), Invalid>>,
   <<Array(2), Map(1), Text(<<97>>), Bytes(<<1>>), Tag(U64(2)), Boolean(TRUE)>>,
   <<Array(1), Map(1), Null, Text(<<97, 195>>)>>}

\* The item that follows the top-level value in the buffer.
Trailer == <<UInt(U64(7))>>

Inputs ==
  {v \o Trailer : v \in NestedInputs \cup IntegerInputs \cup LeafInputs
                        \cup TextInputs \cup ExampleInputs}

\* The index just past the value that starts at buf[i].
RECURSIVE ValueEnd(_, _), RunEnd(_, _, _), BreakEnd(_, _)
ValueEnd(b, i) ==
  CASE b[i].t \in ContainerTypes /\ b[i].len = Indefinite -> BreakEnd(b, i + 1)
    [] b[i].t = "CborArrayType" -> RunEnd(b, i + 1, b[i].len)
    [] b[i].t = "CborMapType" -> RunEnd(b, i + 1, 2 * b[i].len)
    [] b[i].t = "CborTagType" -> ValueEnd(b, i + 1)
    [] OTHER -> i + 1

RunEnd(b, i, k) == IF k = 0 THEN i ELSE RunEnd(b, ValueEnd(b, i), k - 1)

BreakEnd(b, i) == IF b[i].t = "Break" THEN i + 1 ELSE BreakEnd(b, ValueEnd(b, i))

(***************************************************************************)
(* The decode iterator (CborValue and the cbor_value functions).           *)
(* A cursor is the index of its current item and the number of items left  *)
(* in the enclosing container (Indefinite when that container ends with a  *)
(* Break).                                                                 *)
(***************************************************************************)
Less(remaining) == IF remaining = Indefinite THEN Indefinite ELSE remaining - 1

cbor_value_at_end(b, it) ==
  IF it.remaining = Indefinite THEN b[it.ptr].t = "Break" ELSE it.remaining = 0

cbor_value_get_type(b, it) ==
  IF cbor_value_at_end(b, it) THEN "CborInvalidType" ELSE b[it.ptr].t

cbor_value_is_length_known(b, it) == b[it.ptr].len # Indefinite

cbor_value_enter_container(b, it) ==
  [ptr |-> it.ptr + 1,
   remaining |-> CASE b[it.ptr].len = Indefinite -> Indefinite
                   [] b[it.ptr].t = "CborMapType" -> 2 * b[it.ptr].len
                   [] OTHER -> b[it.ptr].len]

cbor_value_leave_container(it, recursed) ==
  [ptr |-> IF recursed.remaining = Indefinite THEN recursed.ptr + 1 ELSE recursed.ptr,
   remaining |-> Less(it.remaining)]

\* A tag does not count as an item of its container: the value it wraps does.
cbor_value_advance_fixed(b, it) ==
  [ptr |-> it.ptr + 1,
   remaining |-> IF b[it.ptr].t = "CborTagType" THEN it.remaining
                 ELSE Less(it.remaining)]

\* cbor_value_dup_byte_string / cbor_value_dup_text_string with next = it:
\* the cursor moves past the string.
cbor_value_dup_string(it) == [ptr |-> it.ptr + 1, remaining |-> Less(it.remaining)]

\* What an iterator operation returns.
IterResults == {CborNoError} \cup IterErrors

(***************************************************************************)
(* Characters.                                                             *)
(***************************************************************************)
\* The printable ASCII characters, 0x20 to 0x7E (0x60 is spelled out: the
\* character cannot stand in a string here).
Ascii ==
  <<
    " ", "!", "\"", "#", "$", "%", "&", "'", "(", ")", "*", "+",
    ",", "-", ".", "/", "0", "1", "2", "3", "4", "5", "6", "7",
    "8", "9", ":", ";", "<", "=", ">", "?", "@", "A", "B", "C",
    "D", "E", "F", "G", "H", "I", "J", "K", "L", "M", "N", "O",
    "P", "Q", "R", "S", "T", "U", "V", "W", "X", "Y", "Z", "[",
    "\\", "]", "^", "_", "grave", "a", "b", "c", "d", "e", "f", "g",
    "h", "i", "j", "k", "l", "m", "n", "o", "p", "q", "r", "s",
    "t", "u", "v", "w", "x", "y", "z", "{", "|", "}", "~"
  >>

\* The character fprintf's %c writes for a printable byte.
Chr(c) == Ascii[c - 31]

ArgChr(c) == ArgStr(<<Chr(c)>>)

ArgU32(n) == ArgInt(<<0, 0, n \div Limb, n % Limb>>)

(***************************************************************************)
(* utf8EscapedDump: one turn of its loop, as a function of the bytes at    *)
(* the read position (w[1] is *buffer) and of n, the counter after the     *)
(* loop's n--.                                                             *)
(***************************************************************************)
\* The escape letter of the switch, for the bytes it names.
EscapeLetter(uc) ==
  CASE uc = 34 -> "\""
    [] uc = 92 -> "\\"
    [] uc = 8 -> "b"
    [] uc = 12 -> "f"
    [] uc = 10 -> "n"
    [] uc = 13 -> "r"
    [] uc = 9 -> "t"
    [] OTHER -> "none"

\* The form a lead byte above 0xC1 announces: bytes needed, least code point,
\* and the payload bits of the lead; none from 0xF5 on.
\* A variant with the two-byte forms ending below 0xDF.
LeadFormShort(uc) ==
  IF uc < 223 THEN [charsNeeded |-> 2, min_uc |-> 128, uc |-> uc % 32]
  ELSE IF uc < 240 THEN [charsNeeded |-> 3, min_uc |-> 2048, uc |-> uc % 16]
  ELSE IF uc < 245 THEN [charsNeeded |-> 4, min_uc |-> 65536, uc |-> uc % 8]
  ELSE [charsNeeded |-> 0, min_uc |-> 0, uc |-> 0]

LeadForm(uc) ==
  IF uc < 224 THEN [charsNeeded |-> 2, min_uc |-> 128, uc |-> uc % 32]
  ELSE IF uc < 240 THEN [charsNeeded |-> 3, min_uc |-> 2048, uc |-> uc % 16]
  ELSE IF uc < 245 THEN [charsNeeded |-> 4, min_uc |-> 65536, uc |-> uc % 8]
  ELSE [charsNeeded |-> 0, min_uc |-> 0, uc |-> 0]

\* A variant that takes 0xBF for no continuation byte.
IsContinuationHalfOpen(b) == b \in 128..190

\* (b & 0xc0) == 0x80
IsContinuation(b) == b \div 64 = 2

\* uc <<= 6; uc |= b & 0x3f
Shift6(uc, b) == uc * 64 + (b % 64)

\* uc < min_uc || uc - 0xd800U < 2048U || uc > 0x10ffff (the subtraction is
\* unsigned: below 0xd800 it wraps to a large value).
Rejected(uc, min_uc) ==
  \/ uc < min_uc
  \/ (uc >= 55296 /\ uc - 55296 < 2048)
  \/ uc > 1114111

Utf8Result(kind, uc, used) == [kind |-> kind, uc |-> uc, used |-> used]

Utf8Char(w, n) ==
  LET uc == w[1]
      form == LeadForm(uc)
      u2 == Shift6(form.uc, w[2])
      u3 == Shift6(u2, w[3])
      u4 == Shift6(u3, w[4])
  IN  IF uc < 128
      THEN IF uc < 127 /\ uc >= 32 /\ uc # 92 /\ uc # 34
           THEN Utf8Result("literal", uc, 1)
           ELSE IF EscapeLetter(uc) # "none"
           THEN Utf8Result("escaped", uc, 1)
           ELSE Utf8Result("utf16", uc, 1)
      ELSE IF uc <= 193 THEN Utf8Result("invalid", uc, 1)
      ELSE IF form.charsNeeded = 0 THEN Utf8Result("invalid", uc, 1)
      ELSE IF n < form.charsNeeded - 1 THEN Utf8Result("invalid", uc, 1)
      ELSE IF ~IsContinuation(w[2]) THEN Utf8Result("invalid", uc, 2)
      ELSE IF form.charsNeeded = 2
      THEN IF Rejected(u2, form.min_uc) THEN Utf8Result("invalid", u2, 2)
           ELSE Utf8Result("utf16", u2, 2)
      ELSE IF ~IsContinuation(w[3]) THEN Utf8Result("invalid", uc, 3)
      ELSE IF form.charsNeeded = 3
      THEN IF Rejected(u3, form.min_uc) THEN Utf8Result("invalid", u3, 3)
           ELSE Utf8Result("utf16", u3, 3)
      ELSE IF ~IsContinuation(w[4]) THEN Utf8Result("invalid", uc, 4)
      ELSE IF Rejected(u4, form.min_uc) THEN Utf8Result("invalid", u4, 4)
      ELSE Utf8Result("pair", u4, 4)

\* The fprintf of one decoded character: its format and its arguments.
Utf8Format(c) ==
  CASE c.kind = "literal" -> [fmt |-> FmtChar, args |-> <<ArgChr(c.uc)>>]
    [] c.kind = "escaped" ->
         [fmt |-> FmtEscaped, args |-> <<ArgStr(<<EscapeLetter(c.uc)>>)>>]
    [] c.kind = "pair" ->
         [fmt |-> FmtSurrogates,
          args |-> <<ArgU32((c.uc \div 1024) + 55232), ArgU32((c.uc % 1024) + 56320)>>]
    [] OTHER -> [fmt |-> FmtUtf16, args |-> <<ArgU32(c.uc)>>]

\* What a read past the end of the duplicated buffer may find.
OverreadBytes == {0, 65, 128}

(***************************************************************************)
(* value_to_pretty: the formats of the fixed-size leaves.                  *)
(***************************************************************************)
IntegerFormat(item) ==
  IF ~item.neg THEN [fmt |-> FmtUnsigned, args |-> <<ArgInt(item.v)>>]
  ELSE IF ~IsZero64(Inc64(item.v))
  THEN [fmt |-> FmtNegative, args |-> <<ArgInt(Inc64(item.v))>>]
  ELSE [fmt |-> FmtNegativeOverflow, args |-> <<>>]

SimpleFormat(item) == [fmt |-> FmtSimple, args |-> <<ArgInt(item.v)>>]

LiteralFormat(item) ==
  [fmt |-> CASE item.t = "CborNullType" -> TxtNull
             [] item.t = "CborUndefinedType" -> TxtUndefined
             [] OTHER -> IF item.v = U64(1) THEN TxtTrue ELSE TxtFalse,
   args |-> <<>>]

FP_NAN == 0

FP_INFINITE == 65536

\* What fpclassify may return: the class numbers are those of <math.h>, which
\* the file overrides for its own comparisons only. A library that expands
\* the names where fpclassify is used returns the overriding values; one that
\* returns its own numbers returns 0 for a NaN and 1 for an infinity, as the
\* common libraries number them, and a number above 1 for a finite value.
fpclassify(item) ==
  CASE item.f.cls = "nan" -> {FP_NAN}
    [] item.f.cls = "inf" -> {FP_INFINITE, 1}
    [] OTHER -> {4}

WidthSuffix(t) ==
  CASE t = "CborFloatType" -> <<"f">>
    [] t = "CborHalfFloatType" -> <<"f", "1", "6">>
    [] OTHER -> <<>>

FloatFormat(item, r) ==
  LET suffix == IF r = FP_NAN \/ r = FP_INFINITE THEN <<>> ELSE WidthSuffix(item.t)
  IN  IF item.f.whole
      THEN [fmt |-> FmtFloatIntegral,
            args |-> <<ArgStr(IF item.neg THEN <<"-">> ELSE <<>>), ArgInt(item.v),
                       ArgStr(suffix)>>]
      ELSE [fmt |-> FmtFloatGeneral, args |-> <<ArgStr(item.f.g), ArgStr(suffix)>>]

\* The value the string handlers return once the buffer is freed.
\* Variants of the string handlers' return: one that reports every failure
\* as an I/O error, one that reads the failed flag the wrong way round.
StringResultAlwaysIO(type, err, failed) ==
  IF failed \/ err # CborNoError THEN CborErrorIO ELSE CborNoError

StringResultInverted(type, err, failed) ==
  IF err # CborNoError THEN err
  ELSE IF failed THEN CborNoError ELSE CborErrorIO

StringResult(type, err, failed) ==
  IF type = "CborByteStringType"
  THEN IF failed THEN CborErrorIO ELSE CborNoError
  ELSE IF err # CborNoError THEN err
  ELSE IF failed THEN CborErrorIO ELSE CborNoError

(***************************************************************************)
(* The state.                                                              *)
(*   libc   how the C library treats an incomplete conversion              *)
(*   buf    the encoded input                                              *)
(*   its    the cursors: its[1] is the caller's value, its[k + 1] the      *)
(*          local "recursed" of the k-th open container                    *)
(*   stack  the active calls of value_to_pretty and container_to_pretty    *)
(*   ret    the value the last call returned, "none" once it is read       *)
(*   out    the bytes the sink has accepted                                *)
(*   heap   the buffers obtained from the dup functions, with the number   *)
(*          of times each was freed and, for a text buffer, the turns of   *)
(*          utf8EscapedDump's loop on it (a record of the run)             *)
(*   calls  the finished calls of value_to_pretty, in the order they       *)
(*          returned (a record of the run, read by the properties only)    *)
(*   ncalls the number of calls of value_to_pretty made                    *)
(*   fault  the first failure of a sink write, an iterator operation or    *)
(*          the UTF-8 validation: its kind, its error, the length of out   *)
(*          when it happened (a record of the run)                         *)
(***************************************************************************)
VARIABLES libc, buf, its, stack, ret, out, heap, calls, ncalls, fault

vars == <<libc, buf, its, stack, ret, out, heap, calls, ncalls, fault>>

NoFault == [kind |-> "none", err |-> CborNoError, at |-> 0, env |-> FALSE]

\* The frame of a call value_to_pretty(out, &its[it]) made by call `parent`.
ValueFrame(b, cursors, it, id, parent, from) ==
  [fn |-> "value", pc |-> "start", it |-> it, id |-> id, parent |-> parent,
   type |-> cbor_value_get_type(b, cursors[it]), tok |-> cursors[it].ptr,
   from |-> from, own |-> 0, comma |-> InitialComma, buffer |-> 0, pos |-> 0,
   n |-> 0, failed |-> FALSE, err |-> CborNoError]

\* The frame of a call container_to_pretty(out, &its[it], containerType).
ContainerFrame(cursors, it, id, type, from) ==
  [fn |-> "container", pc |-> "loop", it |-> it, id |-> id, parent |-> id,
   type |-> type, tok |-> cursors[it].ptr, from |-> from, own |-> 0,
   comma |-> InitialComma, buffer |-> 0, pos |-> 0, n |-> 0, failed |-> FALSE,
   err |-> CborNoError]

Init ==
  /\ libc \in LibcKinds
  /\ buf \in Inputs
  /\ its = <<[ptr |-> 1, remaining |-> 1]>>
  /\ stack = <<ValueFrame(buf, its, 1, 1, 0, 0)>>
  /\ ret = "none"
  /\ out = <<>>
  /\ heap = <<>>
  /\ calls = <<>>
  /\ ncalls = 1
  /\ fault = NoFault

Top == stack[Len(stack)]

It == its[Top.it]

Item0 == buf[It.ptr]

At(fn, pc) == stack # <<>> /\ Top.fn = fn /\ Top.pc = pc

Done == stack = <<>>

\* fprintf on the sink: the sink may refuse any write.
Sink(fmt, args, accept) ==
  IF accept THEN Fprintf(libc, fmt, args) ELSE [r |-> -1, text |-> <<>>]

\* env: the failure is the environment's (the sink refused the write, the
\* iterator reported an error), not one the formatter brought about itself.
Fail(kind, err, env, sink) ==
  fault' = IF fault.kind = "none"
           THEN [kind |-> kind, err |-> err, at |-> Len(sink), env |-> env]
           ELSE fault

\* The call goes on at frame f.
Goto(f, sink, cursors) ==
  /\ stack' = [stack EXCEPT ![Len(stack)] = f]
  /\ out' = sink
  /\ its' = cursors
  /\ ret' = "none"
  /\ UNCHANGED <<calls, ncalls>>

\* A variant that formats the value in the caller's place, without a new
\* activation.
CallValueInPlace(f, sink, cursors) ==
  /\ stack' = [stack EXCEPT ![Len(stack)] =
                 ValueFrame(buf, cursors, f.it, ncalls + 1, f.id, Len(sink))]
  /\ out' = sink
  /\ its' = cursors
  /\ ret' = "none"
  /\ ncalls' = ncalls + 1
  /\ UNCHANGED calls

\* The call goes on at frame f after value_to_pretty(out, &its[f.it]) returns.
CallValue(f, sink, cursors) ==
  /\ stack' = Append([stack EXCEPT ![Len(stack)] = f],
                     ValueFrame(buf, cursors, f.it, ncalls + 1, f.id, Len(sink)))
  /\ out' = sink
  /\ its' = cursors
  /\ ret' = "none"
  /\ ncalls' = ncalls + 1
  /\ UNCHANGED calls

\* The call whose frame is f returns err; the cursors of its own block go
\* out of scope. What container_to_pretty wrote counts as written by the
\* array or map handler that called it.
Return(f, err, sink, cursors) ==
  /\ stack' = IF f.fn = "container"
              THEN [SubSeq(stack, 1, Len(stack) - 1) EXCEPT
                      ![Len(stack) - 1].own = @ + f.own]
              ELSE SubSeq(stack, 1, Len(stack) - 1)
  /\ out' = sink
  /\ ret' = err
  /\ UNCHANGED ncalls
  /\ IF f.fn = "value"
     THEN /\ its' = SubSeq(cursors, 1, f.it)
          /\ calls' = Append(calls,
                             [id |-> f.id, parent |-> f.parent, type |-> f.type,
                              tok |-> f.tok, ptr |-> cursors[f.it].ptr,
                              from |-> f.from, to |-> Len(sink),
                              own |-> f.own, err |-> err])
     ELSE /\ its' = cursors
          /\ calls' = calls

Wrote(f, text) == [f EXCEPT !.own = @ + Len(text)]

(***************************************************************************)
(* value_to_pretty: arrays and maps.                                       *)
(***************************************************************************)
\* A variant that never writes the marker.
AfterOpenBracketNoMarker(lengthKnown) == "enter"

\* if (!cbor_value_is_length_known(it)): what follows the opening bracket.
AfterOpenBracket(lengthKnown) == IF lengthKnown THEN "enter" ELSE "marker"

\* fprintf(out, type == CborArrayType ? "[" : "{")
OpenContainer ==
  /\ At("value", "start")
  /\ Top.type \in ContainerTypes
  /\ \E accept \in BOOLEAN :
       LET w == Sink(OpenBracket(Top.type), <<>>, accept)
       IN  IF w.r < 0
           THEN Fail("sink", CborErrorIO, ~accept, out) /\ Return(Top, CborErrorIO, out, its)
           ELSE /\ UNCHANGED fault
                /\ Goto([Wrote(Top, w.text) EXCEPT
                           !.pc = AfterOpenBracket(cbor_value_is_length_known(buf, It))],
                        out \o w.text, its)
  /\ UNCHANGED <<libc, buf, heap>>

\* if (!cbor_value_is_length_known(it)) fprintf(out, "_ ")
IndefiniteMarker ==
  /\ At("value", "marker")
  /\ \E accept \in BOOLEAN :
       LET w == Sink(TxtIndefinite, <<>>, accept)
       IN  IF w.r < 0
           THEN Fail("sink", CborErrorIO, ~accept, out) /\ Return(Top, CborErrorIO, out, its)
           ELSE /\ UNCHANGED fault
                /\ Goto([Wrote(Top, w.text) EXCEPT !.pc = "enter"], out \o w.text, its)
  /\ UNCHANGED <<libc, buf, heap>>

\* err = cbor_value_enter_container(it, &recursed), then the call of
\* container_to_pretty(out, &recursed, type). On an error recursed is the
\* copy of *it the iterator started from, and it->ptr = recursed.ptr.
EnterContainer ==
  /\ At("value", "enter")
  /\ \E e \in IterResults :
       IF e # CborNoError
       THEN /\ Fail("iterator", e, TRUE, out)
            /\ Return(Top, e, out, [its EXCEPT ![Top.it].ptr = It.ptr])
       ELSE /\ UNCHANGED fault
            /\ stack' = Append([stack EXCEPT ![Len(stack)].pc = "left"],
                               ContainerFrame(Append(its, cbor_value_enter_container(buf, It)),
                                              Top.it + 1, Top.id, Top.type, Len(out)))
            /\ its' = Append(its, cbor_value_enter_container(buf, It))
            /\ ret' = "none"
            /\ UNCHANGED <<out, calls, ncalls>>
  /\ UNCHANGED <<libc, buf, heap>>

\* After container_to_pretty: on its error it->ptr = recursed.ptr and the
\* error is returned; else err = cbor_value_leave_container(it, &recursed).
LeaveContainer ==
  /\ At("value", "left")
  /\ ret # "none"
  /\ IF ret # CborNoError
     THEN /\ UNCHANGED fault
          /\ Return(Top, ret, out, [its EXCEPT ![Top.it].ptr = its[Top.it + 1].ptr])
     ELSE \E e \in IterResults :
            IF e # CborNoError
            THEN Fail("iterator", e, TRUE, out) /\ Return(Top, e, out, its)
            ELSE /\ UNCHANGED fault
                 /\ Goto([Top EXCEPT !.pc = "close"], out,
                         [its EXCEPT ![Top.it] =
                            cbor_value_leave_container(It, its[Top.it + 1])])
  /\ UNCHANGED <<libc, buf, heap>>

\* fprintf(out, type == CborArrayType ? "]" : "}")
CloseContainer ==
  /\ At("value", "close")
  /\ \E accept \in BOOLEAN :
       LET w == Sink(CloseBracket(Top.type), <<>>, accept)
       IN  IF w.r < 0
           THEN Fail("sink", CborErrorIO, ~accept, out) /\ Return(Top, CborErrorIO, out, its)
           ELSE /\ UNCHANGED fault
                /\ Return(Wrote(Top, w.text), CborNoError, out \o w.text, its)
  /\ UNCHANGED <<libc, buf, heap>>

(***************************************************************************)
(* container_to_pretty.                                                    *)
(***************************************************************************)
\* while (!cbor_value_at_end(it)) { fprintf(out, "%s", comma); comma = ", ";
\* err = value_to_pretty(out, it);
ContainerLoop ==
  /\ At("container", "loop")
  /\ IF cbor_value_at_end(buf, It)
     THEN UNCHANGED fault /\ Return(Top, CborNoError, out, its)
     ELSE \E accept \in BOOLEAN :
            LET w == Sink(FmtString, <<ArgStr(Top.comma)>>, accept)
            IN  IF w.r < 0
                THEN Fail("sink", CborErrorIO, ~accept, out) /\ Return(Top, CborErrorIO, out, its)
                ELSE /\ UNCHANGED fault
                     /\ CallValue([Wrote(Top, w.text) EXCEPT
                                     !.comma = TxtComma, !.pc = "element"],
                                  out \o w.text, its)
  /\ UNCHANGED <<libc, buf, heap>>

\* if (err) return err; if (containerType == CborArrayType) continue;
\* fprintf(out, ": "); err = value_to_pretty(out, it);
ContainerElement ==
  /\ At("container", "element")
  /\ ret # "none"
  /\ IF ret # CborNoError
     THEN UNCHANGED fault /\ Return(Top, ret, out, its)
     ELSE IF Top.type = "CborArrayType"
     THEN UNCHANGED fault /\ Goto([Top EXCEPT !.pc = "loop"], out, its)
     ELSE \E accept \in BOOLEAN :
            LET w == Sink(TxtColon, <<>>, accept)
            IN  IF w.r < 0
                THEN Fail("sink", CborErrorIO, ~accept, out) /\ Return(Top, CborErrorIO, out, its)
                ELSE /\ UNCHANGED fault
                     /\ CallValue([Wrote(Top, w.text) EXCEPT !.pc = "value"],
                                  out \o w.text, its)
  /\ UNCHANGED <<libc, buf, heap>>

\* err = value_to_pretty(out, it); if (err) return err; } of the map's value
ContainerValue ==
  /\ At("container", "value")
  /\ ret # "none"
  /\ UNCHANGED fault
  /\ IF ret # CborNoError
     THEN Return(Top, ret, out, its)
     ELSE Goto([Top EXCEPT !.pc = "loop"], out, its)
  /\ UNCHANGED <<libc, buf, heap>>

(***************************************************************************)
(* value_to_pretty: the fixed-size leaves. Each prints, then breaks out of *)
(* the switch to err = cbor_value_advance_fixed(it); return err.           *)
(***************************************************************************)
\* A variant that leaves the cursor on the leaf.
AdvancePastLeafStays(it) == it

\* err = cbor_value_advance_fixed(it) behind the switch.
AdvancePastLeaf(it) == cbor_value_advance_fixed(buf, it)

PrintLeaf(p) ==
  \E accept \in BOOLEAN, e \in IterResults :
    LET w == Sink(p.fmt, p.args, accept)
    IN  IF w.r < 0
        THEN Fail("sink", CborErrorIO, ~accept, out) /\ Return(Top, CborErrorIO, out, its)
        ELSE IF e # CborNoError
        THEN Fail("iterator", e, TRUE, out \o w.text) /\ Return(Wrote(Top, w.text), e, out \o w.text, its)
        ELSE /\ UNCHANGED fault
             /\ Return(Wrote(Top, w.text), CborNoError, out \o w.text,
                       [its EXCEPT ![Top.it] = AdvancePastLeaf(It)])

PrettyInteger ==
  /\ At("value", "start")
  /\ Top.type = "CborIntegerType"
  /\ PrintLeaf(IntegerFormat(Item0))
  /\ UNCHANGED <<libc, buf, heap>>

PrettySimple ==
  /\ At("value", "start")
  /\ Top.type = "CborSimpleType"
  /\ PrintLeaf(SimpleFormat(Item0))
  /\ UNCHANGED <<libc, buf, heap>>

PrettyLiteral ==
  /\ At("value", "start")
  /\ Top.type \in LiteralTypes
  /\ PrintLeaf(LiteralFormat(Item0))
  /\ UNCHANGED <<libc, buf, heap>>

PrettyFloat ==
  /\ At("value", "start")
  /\ Top.type \in FloatTypes
  /\ \E r \in fpclassify(Item0) : PrintLeaf(FloatFormat(Item0, r))
  /\ UNCHANGED <<libc, buf, heap>>

\* A variant that leaves the switch with break instead of returning.
InvalidResultBreak == CborNoError

\* return CborErrorUnknownType;
InvalidResult == CborErrorUnknownType

\* case CborInvalidType: fprintf(out, "invalid"); return CborErrorUnknownType;
PrettyInvalid ==
  /\ At("value", "start")
  /\ Top.type = "CborInvalidType"
  /\ \E accept \in BOOLEAN :
       LET w == Sink(TxtInvalid, <<>>, accept)
       IN  IF w.r < 0
           THEN Fail("sink", CborErrorIO, ~accept, out) /\ Return(Top, CborErrorIO, out, its)
           ELSE /\ UNCHANGED fault
                /\ Return(Wrote(Top, w.text), InvalidResult, out \o w.text, its)
  /\ UNCHANGED <<libc, buf, heap>>

(***************************************************************************)
(* value_to_pretty: tags.                                                  *)
(***************************************************************************)
\* fprintf(out, "%" PRIu64 "(", tag); err = cbor_value_advance_fixed(it);
\* err = value_to_pretty(out, it);
OpenTag ==
  /\ At("value", "start")
  /\ Top.type = "CborTagType"
  /\ \E accept \in BOOLEAN, e \in IterResults :
       LET w == Sink(FmtTag, <<ArgInt(Item0.v)>>, accept)
       IN  IF w.r < 0
           THEN Fail("sink", CborErrorIO, ~accept, out) /\ Return(Top, CborErrorIO, out, its)
           ELSE IF e # CborNoError
           THEN Fail("iterator", e, TRUE, out \o w.text) /\ Return(Wrote(Top, w.text), e, out \o w.text, its)
           ELSE /\ UNCHANGED fault
                /\ CallValue([Wrote(Top, w.text) EXCEPT !.pc = "tagged"], out \o w.text,
                             [its EXCEPT ![Top.it] = cbor_value_advance_fixed(buf, It)])
  /\ UNCHANGED <<libc, buf, heap>>

\* if (err) return err; fprintf(out, ")"); return CborNoError;
CloseTag ==
  /\ At("value", "tagged")
  /\ ret # "none"
  /\ IF ret # CborNoError
     THEN UNCHANGED fault /\ Return(Top, ret, out, its)
     ELSE \E accept \in BOOLEAN :
            LET w == Sink(<<")">>, <<>>, accept)
            IN  IF w.r < 0
                THEN Fail("sink", CborErrorIO, ~accept, out) /\ Return(Top, CborErrorIO, out, its)
                ELSE /\ UNCHANGED fault
                     /\ Return(Wrote(Top, w.text), CborNoError, out \o w.text, its)
  /\ UNCHANGED <<libc, buf, heap>>

(***************************************************************************)
(* value_to_pretty: byte and text strings.                                 *)
(*   failed = fprintf(open) < 0 || dump(out, buffer, n) ... || fprintf(close) < 0; *)
(*   free(buffer); return ...                                              *)
(* The || stops at the first operand that fails.                           *)
(***************************************************************************)
\* Where the handler goes on when an operand of the || chain has failed.
AfterFailedOperand == "free"

\* err = cbor_value_dup_byte_string(it, &buffer, &n, it), or _text_string
DupString ==
  /\ At("value", "start")
  /\ Top.type \in StringTypes
  /\ \E e \in IterResults :
       IF e # CborNoError
       THEN Fail("iterator", e, TRUE, out) /\ Return(Top, e, out, its) /\ UNCHANGED heap
       ELSE /\ UNCHANGED fault
            /\ heap' = Append(heap, [b |-> Item0.b, frees |-> 0, turns |-> <<>>])
            /\ Goto([Top EXCEPT !.pc = "open", !.buffer = Len(heap) + 1,
                                !.n = Len(Item0.b), !.pos = 0],
                    out, [its EXCEPT ![Top.it] = cbor_value_dup_string(It)])
  /\ UNCHANGED <<libc, buf>>

\* fprintf(out, "h'") < 0, or fprintf(out, "\"") < 0
OpenString ==
  /\ At("value", "open")
  /\ \E accept \in BOOLEAN :
       LET w == Sink(IF Top.type = "CborByteStringType" THEN TxtByteOpen ELSE TxtQuote,
                     <<>>, accept)
       IN  IF w.r < 0
           THEN /\ Fail("sink", CborErrorIO, ~accept, out)
                /\ Goto([Top EXCEPT !.failed = TRUE, !.pc = AfterFailedOperand], out, its)
           ELSE /\ UNCHANGED fault
                /\ Goto([Wrote(Top, w.text) EXCEPT !.pc = "dump"], out \o w.text, its)
  /\ UNCHANGED <<libc, buf, heap>>

\* hexDump: while (n--) { r = fprintf(out, "%02" PRIx8, *buffer++);
\* if (r < 0) return r; }
HexDumpByte ==
  /\ At("value", "dump")
  /\ Top.type = "CborByteStringType"
  /\ Top.n > 0
  /\ \E accept \in BOOLEAN :
       LET byte == heap[Top.buffer].b[Top.pos + 1]
           w == Sink(FmtHexByte, <<ArgInt(U64(byte))>>, accept)
       IN  IF w.r < 0
           THEN /\ Fail("sink", CborErrorIO, ~accept, out)
                /\ Goto([Top EXCEPT !.failed = TRUE, !.pc = AfterFailedOperand], out, its)
           ELSE /\ UNCHANGED fault
                /\ Goto([Wrote(Top, w.text) EXCEPT !.n = @ - 1, !.pos = @ + 1],
                        out \o w.text, its)
  /\ UNCHANGED <<libc, buf, heap>>

\* The byte at offset k of the duplicated buffer; a read at or past its
\* length finds what lies behind the buffer.
BufferByte(b, k, behind) == IF k < Len(b) THEN b[k + 1] ELSE behind[k - Len(b) + 1]

\* The most bytes one turn of the loop reads when it starts at this lead
\* byte: the lead and, for a multi-byte form, its continuation bytes.
BytesTouched(lead) ==
  IF lead < 194 \/ LeadForm(lead).charsNeeded = 0 THEN 1 ELSE LeadForm(lead).charsNeeded

\* A variant whose loop condition does not count down.
CounterStuck(n, used) == n

\* The counter of utf8EscapedDump after one turn of its loop: the while's n--
\* is the only place that changes it.
CounterAfter(n, used) == n - 1

\* utf8EscapedDump: one turn of while (n--).
\* The record of one turn of the loop: where it started, the counter n it
\* found, the bytes it read, what it decoded, what it wrote.
Turn(pos, n, w, c, text, wrote) ==
  [pos |-> pos, n |-> n, bytes |-> SubSeq(w, 1, c.used), kind |-> c.kind,
   uc |-> c.uc, text |-> text, wrote |-> wrote]

Utf8DumpChar ==
  /\ At("value", "dump")
  /\ Top.type = "CborTextStringType"
  /\ Top.n > 0
  /\ LET b == heap[Top.buffer].b
         reach == IF Top.pos < Len(b) THEN BytesTouched(b[Top.pos + 1]) ELSE 4
         over == IF Top.pos + reach > Len(b) THEN Top.pos + reach - Len(b) ELSE 0
     IN  \E behind \in [1..over -> OverreadBytes], accept \in BOOLEAN :
           LET w4 == [k \in 1..4 |->
                        IF k <= reach THEN BufferByte(b, Top.pos + k - 1, behind) ELSE 0]
               c == Utf8Char(w4, Top.n - 1)
               p == Utf8Format(c)
               w == Sink(p.fmt, p.args, accept)
           IN  /\ heap' = [heap EXCEPT ![Top.buffer].turns =
                             Append(@, Turn(Top.pos, Top.n, w4, c,
                                            IF c.kind = "invalid" THEN <<>> ELSE w.text,
                                            c.kind # "invalid" /\ w.r >= 0))]
               /\ IF c.kind = "invalid"
                  THEN /\ Fail("utf8", CborErrorInvalidUtf8TextString, FALSE, out)
                       /\ Goto([Top EXCEPT !.failed = TRUE, !.pc = AfterFailedOperand,
                                           !.err = CborErrorInvalidUtf8TextString],
                               out, its)
                  ELSE IF w.r < 0
                  THEN /\ Fail("sink", CborErrorIO, ~accept, out)
                       /\ Goto([Top EXCEPT !.failed = TRUE, !.pc = AfterFailedOperand,
                                           !.err = CborErrorIO],
                               out, its)
                  ELSE /\ UNCHANGED fault
                       /\ Goto([Wrote(Top, w.text) EXCEPT
                                  !.n = CounterAfter(Top.n, c.used), !.pos = @ + c.used],
                               out \o w.text, its)
  /\ UNCHANGED <<libc, buf>>

\* The dump returned 0 (its loop ended): fprintf(out, "'") < 0, or "\""
CloseString ==
  /\ At("value", "dump")
  /\ Top.n = 0
  /\ \E accept \in BOOLEAN :
       LET w == Sink(IF Top.type = "CborByteStringType" THEN TxtByteClose ELSE TxtQuote,
                     <<>>, accept)
       IN  IF w.r < 0
           THEN /\ Fail("sink", CborErrorIO, ~accept, out)
                /\ Goto([Top EXCEPT !.failed = TRUE, !.pc = AfterFailedOperand], out, its)
           ELSE /\ UNCHANGED fault
                /\ Goto([Wrote(Top, w.text) EXCEPT !.pc = "free"], out \o w.text, its)
  /\ UNCHANGED <<libc, buf, heap>>

\* A variant that forgets the buffer.
freeNothing(h, buffer) == h

\* free(buffer)
free(h, buffer) == [h EXCEPT ![buffer].frees = @ + 1]

\* free(buffer); return err != CborNoError ? err : failed ? CborErrorIO : CborNoError;
FreeBuffer ==
  /\ At("value", "free")
  /\ heap' = free(heap, Top.buffer)
  /\ Return(Top, StringResult(Top.type, Top.err, Top.failed), out, its)
  /\ UNCHANGED <<libc, buf, fault>>

(***************************************************************************)
(* cbor_value_to_pretty_advance(out, value) is the one call of             *)
(* value_to_pretty the initial state holds; the run is over when it has    *)
(* returned.                                                               *)
(***************************************************************************)
Next ==
  \/ OpenContainer
  \/ IndefiniteMarker
  \/ EnterContainer
  \/ LeaveContainer
  \/ CloseContainer
  \/ ContainerLoop
  \/ ContainerElement
  \/ ContainerValue
  \/ PrettyInteger
  \/ PrettySimple
  \/ PrettyLiteral
  \/ PrettyFloat
  \/ PrettyInvalid
  \/ OpenTag
  \/ CloseTag
  \/ DupString
  \/ OpenString
  \/ HexDumpByte
  \/ Utf8DumpChar
  \/ CloseString
  \/ FreeBuffer

Spec == Init /\ [][Next]_vars


(***************************************************************************)
(* Properties.                                                             *)
(* A call is a record of calls; its text is the part of out written        *)
(* between its start and its return; its children are the calls it made,   *)
(* in the order they returned.                                             *)
(***************************************************************************)
Segment(c) == SubSeq(out, c.from + 1, c.to)

Children(c) == SelectSeq(calls, LAMBDA e : e.parent = c.id)

Finished == {calls[i] : i \in 1..Len(calls)}

\* C1: once a sink write, an iterator operation or the UTF-8 validation has
\* failed, no byte is written any more, every call of value_to_pretty that
\* returns an error returns the error of that failure, and so does the
\* outermost call.
C1_ErrorPropagates ==
  fault.kind # "none" =>
    /\ Len(out) = fault.at
    /\ ret \in {"none", fault.err}
    /\ \A c \in Finished : c.err \in {CborNoError, fault.err}
    /\ \A c \in Finished : c.err = CborNoError => c.to <= fault.at
    /\ Done => ret = fault.err

\* The UTF-8 validation failed in a text string two containers deep, and its
\* error reached the caller of the outermost call.
C1_Witness ==
  /\ Done
  /\ fault.kind = "utf8"
  /\ ret = CborErrorInvalidUtf8TextString
  /\ Cardinality({c \in Finished : c.err = CborErrorInvalidUtf8TextString}) >= 3

\* C2: a call of value_to_pretty that returns CborNoError leaves its cursor
\* on the item right behind the value it formatted, whatever the value's
\* type and nesting; the outermost call leaves the caller's cursor there.
C2_CursorPastValue ==
  /\ \A c \in Finished : c.err = CborNoError => c.ptr = ValueEnd(buf, c.tok)
  /\ (Done /\ ret = CborNoError) =>
       /\ Len(its) = 1
       /\ its[1].ptr = ValueEnd(buf, 1)
       /\ buf[its[1].ptr] = Trailer[1]

\* A map in an array was formatted with success, strings and integers
\* included.
C2_Witness ==
  /\ Done
  /\ ret = CborNoError
  /\ \E c, d, e \in Finished :
       /\ c.type = "CborArrayType" /\ d.type = "CborMapType" /\ d.parent = c.id
       /\ e.parent = d.id /\ e.type = "CborTextStringType"

\* C3: a buffer obtained from a dup function is freed at most once, is live
\* only while the string handler that obtained it is running, and has been
\* freed exactly once when the run is over, on success and on failure.
C3_BufferFreedOnce ==
  \A k \in 1..Len(heap) :
    /\ heap[k].frees <= 1
    /\ heap[k].frees = 0 =>
         \E j \in 1..Len(stack) : stack[j].fn = "value" /\ stack[j].buffer = k
    /\ Done => heap[k].frees = 1

\* Two buffers were obtained; the handler of the second one failed in the
\* middle of its string.
C3_Witness ==
  /\ Done
  /\ Len(heap) = 2
  /\ fault.kind \in {"sink", "utf8"}
  /\ \E c \in Finished : c.type \in StringTypes /\ c.err # CborNoError /\ c.own > 0
  /\ \A k \in 1..Len(heap) : heap[k].frees = 1

\* The separator container_to_pretty writes before the j-th child of a
\* container of this type.
SeparatorBefore(type, j) ==
  IF j = 1 THEN <<>>
  ELSE IF type = "CborMapType" /\ j % 2 = 0 THEN <<":", " ">>
  ELSE <<",", " ">>

RECURSIVE Joined(_, _, _)
Joined(kids, j, type) ==
  IF j > Len(kids) THEN <<>>
  ELSE SeparatorBefore(type, j) \o Segment(kids[j]) \o Joined(kids, j + 1, type)

\* C4: a definite-length array or map formatted with success is written as
\* its opening bracket, the texts of its elements in encoded order, depth
\* first, ", " between array elements and between map pairs, ": " between a
\* key and its value, and its closing bracket; an empty one as "[]" or "{}".
C4_DefiniteContainerLayout ==
  \A c \in Finished :
    (c.type \in ContainerTypes /\ c.err = CborNoError /\ buf[c.tok].len # Indefinite) =>
      LET kids == Children(c)
          n == IF c.type = "CborArrayType" THEN buf[c.tok].len ELSE 2 * buf[c.tok].len
      IN  /\ Len(kids) = n
          /\ \A j \in 1..Len(kids) :
               /\ kids[j].tok = IF j = 1 THEN c.tok + 1 ELSE ValueEnd(buf, kids[j - 1].tok)
               /\ kids[j].from >= c.from /\ kids[j].to <= c.to
               /\ j > 1 => kids[j].from >= kids[j - 1].to
          /\ Segment(c) =
               <<IF c.type = "CborArrayType" THEN "[" ELSE "{">>
               \o Joined(kids, 1, c.type)
               \o <<IF c.type = "CborArrayType" THEN "]" ELSE "}">>

\* A map of two pairs with text values, and an array that holds an empty
\* array, were formatted with success.
C4_Witness ==
  /\ \E c \in Finished :
       /\ c.type = "CborMapType" /\ c.err = CborNoError /\ buf[c.tok].len = 2
       /\ Len(Children(c)) = 4
       /\ Children(c)[2].type = "CborTextStringType"
  /\ libc = "bsd"


\* The top-level item is text, and neither the sink nor the iterator failed.
TextRun == Done /\ buf[1].t = "CborTextStringType" /\ ~fault.env

\* A well-formed four-byte UTF-8 sequence and the scalar value it encodes.
CodePoint4(b) == (b[1] % 8) * 262144 + (b[2] % 64) * 4096 + (b[3] % 64) * 64 + (b[4] % 64)

IsFourByteScalar(b) ==
  /\ Len(b) = 4
  /\ b[1] \in 240..244
  /\ \A k \in 2..4 : b[k] \in 128..191
  /\ CodePoint4(b) \in 65536..1114111

HexChars == <<"0", "1", "2", "3", "4", "5", "6", "7", "8", "9", "A", "B", "C", "D", "E", "F">>

Hex4(n) ==
  <<HexChars[((n \div 4096) % 16) + 1], HexChars[((n \div 256) % 16) + 1],
    HexChars[((n \div 16) % 16) + 1], HexChars[(n % 16) + 1]>>

\* C5: a text string that is one valid four-byte UTF-8 sequence is formatted
\* with success as the quoted pair \uHHHH\uLLLL, HHHH = (cp >> 10) + 0xD7C0
\* and LLLL = (cp % 0x400) + 0xDC00 in four upper-case hexadecimal digits.
C5_SurrogatePair ==
  (TextRun /\ IsFourByteScalar(buf[1].b)) =>
    /\ ret = CborNoError
    /\ out = <<"\"", "\\", "u">> \o Hex4((CodePoint4(buf[1].b) \div 1024) + 55232)
             \o <<"\\", "u">> \o Hex4((CodePoint4(buf[1].b) % 1024) + 56320)
             \o <<"\"">>

\* Well-formed UTF-8 (the Unicode Standard, table 3-7), from position i on.
RECURSIVE WellFormedFrom(_, _)
WellFormedFrom(b, i) ==
  LET has(k, lo, hi) == i + k <= Len(b) /\ b[i + k] \in lo..hi
  IN  IF i > Len(b) THEN TRUE
      ELSE IF b[i] < 128 THEN WellFormedFrom(b, i + 1)
      ELSE IF b[i] \in 194..223 THEN has(1, 128, 191) /\ WellFormedFrom(b, i + 2)
      ELSE IF b[i] \in 224..239
      THEN /\ has(1, IF b[i] = 224 THEN 160 ELSE 128, IF b[i] = 237 THEN 159 ELSE 191)
           /\ has(2, 128, 191)
           /\ WellFormedFrom(b, i + 3)
      ELSE IF b[i] \in 240..244
      THEN /\ has(1, IF b[i] = 240 THEN 144 ELSE 128, IF b[i] = 244 THEN 143 ELSE 191)
           /\ has(2, 128, 191)
           /\ has(3, 128, 191)
           /\ WellFormedFrom(b, i + 4)
      ELSE FALSE

\* C6: a text string with an ill-formed UTF-8 sequence at any position makes
\* the call end with CborErrorInvalidUtf8TextString, found by the
\* validation, and nothing (no closing quote) is written after that. The
\* runs in which a write to the sink or an iterator operation failed are
\* left aside.
C6_IllFormedRejected ==
  (Done /\ buf[1].t = "CborTextStringType" /\ ~WellFormedFrom(buf[1].b, 1)
        /\ fault.kind \notin {"sink", "iterator"}) =>
    /\ ret = CborErrorInvalidUtf8TextString
    /\ fault.kind = "utf8"
    /\ Len(out) = fault.at

\* C7: a negative integer of raw magnitude N is written as "-" and the
\* decimal digits of N + 1, and as -18446744073709551616 when N = 2^64 - 1;
\* neither "-0" nor "0" is written for any N.
C7_NegativeInteger ==
  (Done /\ buf[1].t = "CborIntegerType" /\ buf[1].neg /\ ~fault.env) =>
    /\ ret = CborNoError
    /\ out = IF buf[1].v = U64Max
             THEN <<"-", "1", "8", "4", "4", "6", "7", "4", "4", "0", "7", "3",
                    "7", "0", "9", "5", "5", "1", "6", "1", "6">>
             ELSE <<"-">> \o Dec64(Inc64(buf[1].v))

\* The indefinite-length array of the unsigned integers 1 and 2.
IndefiniteOneTwo == <<Array(Indefinite), UInt(U64(1)), UInt(U64(2)), Break>> \o Trailer

\* What the integer handler writes for the unsigned integer n.
UnsignedText(n) ==
  Fprintf(libc, IntegerFormat(UInt(U64(n))).fmt, IntegerFormat(UInt(U64(n))).args).text

C9_InvalidType ==
  \A i \in 1..Len(calls) :
    calls[i].type = "CborInvalidType" =>
      IF calls[i].own > 0
      THEN /\ calls[i].err = "CborErrorUnknownType"
           /\ Segment(calls[i]) = <<"i", "n", "v", "a", "l", "i", "d">>
           /\ calls[i].ptr = calls[i].tok
           /\ Len(out) = calls[i].to
           /\ ret = "CborErrorUnknownType"
           /\ \A j \in i..Len(calls) : calls[j].err = "CborErrorUnknownType"
      ELSE calls[i].err = CborErrorIO /\ fault.kind = "sink" /\ fault.env

\* An Invalid item two containers deep ended the run with
\* CborErrorUnknownType.
C9_Witness ==
  /\ Done
  /\ ret = "CborErrorUnknownType"
  /\ Len(calls) >= 3
  /\ calls[1].type = "CborInvalidType"
  /\ Len(out) > 7

\* C10 as the specification states it: a handler other than the one of the
\* Invalid type has written nothing when it returns an error.
C10_OnlyInvalidWritesFirst ==
  \A c \in Finished : (c.err # CborNoError /\ c.own > 0) => c.type = "CborInvalidType"

\* C10, amended: the handler of the Invalid type is the only one that
\* returns an error of its own making after it wrote. A call of another
\* handler that returns an error returns either the error of the sink
\* write, iterator operation or UTF-8 validation that failed while it was
\* running, or the CborErrorUnknownType of an Invalid item nested in it.
C10_ErrorsHaveACause ==
  \A i \in 1..Len(calls) :
    LET c == calls[i]
    IN  c.err # CborNoError =>
          IF fault.kind = "none"
          THEN /\ c.err = "CborErrorUnknownType"
               /\ \E j \in 1..i :
                    /\ calls[j].type = "CborInvalidType"
                    /\ calls[j].own = 7
                    /\ calls[j].from >= c.from
                    /\ calls[j].to = c.to
          ELSE /\ c.err = fault.err
               /\ c.from <= fault.at
               /\ fault.at = c.to
               /\ c.type = "CborInvalidType" => c.own = 0

\* A text string handler wrote its opening quote and then returned the error
\* of the UTF-8 validation; an array handler wrote its opening bracket and
\* then returned the error of an element.
C10_Witness ==
  /\ \E c \in Finished :
       /\ c.type = "CborTextStringType" /\ c.own > 0
       /\ c.err = CborErrorInvalidUtf8TextString
  /\ \E c \in Finished : c.type = "CborArrayType" /\ c.own > 0 /\ c.err # CborNoError


(***************************************************************************)
(* Properties of utf8EscapedDump, stated on the recorded turns of its      *)
(* loop.                                                                   *)
(***************************************************************************)
Turns == UNION {{heap[k].turns[i] : i \in 1..Len(heap[k].turns)} : k \in 1..Len(heap)}

\* The turn decoded a character (it may still have failed to write it).
Decoded(t) == t.kind # "invalid"

\* The code point of a well-formed sequence of k bytes.
CodePointOf(bytes) ==
  CASE Len(bytes) = 1 -> bytes[1]
    [] Len(bytes) = 2 -> (bytes[1] % 32) * 64 + (bytes[2] % 64)
    [] Len(bytes) = 3 -> (bytes[1] % 16) * 4096 + (bytes[2] % 64) * 64 + (bytes[3] % 64)
    [] OTHER -> CodePoint4(bytes)

\* C11 as the specification states it: a lead byte is decoded as a two-byte
\* form only in [0xC2,0xDF), as a three-byte form only in [0xE0,0xF0), as a
\* four-byte form only in [0xF0,0xF5).
C11_LeadIntervalsHalfOpen ==
  \A t \in Turns :
    (Decoded(t) /\ t.bytes[1] >= 128) =>
      /\ Len(t.bytes) = 2 => t.bytes[1] \in 194..222
      /\ Len(t.bytes) = 3 => t.bytes[1] \in 224..239
      /\ Len(t.bytes) = 4 => t.bytes[1] \in 240..244

\* C11, amended: a lead byte b <= 0xC1 or b >= 0xF5 is rejected at once; b
\* in [0xC2,0xDF] (0xDF included) is decoded as a two-byte form of at least
\* 0x80, b in [0xE0,0xEF] as a three-byte form of at least 0x800, b in
\* [0xF0,0xF4] as a four-byte form of at least 0x10000, and as no other form.
C11_LeadIntervals ==
  \A t \in Turns :
    LET b == t.bytes[1]
    IN  b >= 128 =>
          /\ (b <= 193 \/ b >= 245) => (t.kind = "invalid" /\ Len(t.bytes) = 1)
          /\ Decoded(t) =>
               /\ t.uc = CodePointOf(t.bytes)
               /\ b \in 194..223 => (Len(t.bytes) = 2 /\ t.uc >= 128)
               /\ b \in 224..239 => (Len(t.bytes) = 3 /\ t.uc >= 2048)
               /\ b \in 240..244 => (Len(t.bytes) = 4 /\ t.uc >= 65536)

\* The lead byte 0xDF was decoded as a two-byte form.
C11_Witness ==
  \E t \in Turns : t.bytes[1] = 223 /\ Decoded(t) /\ Len(t.bytes) = 2 /\ t.uc = 2016


\* C12 as the specification states it: every continuation byte of an
\* accepted multi-byte sequence lies in [0x80,0xBF), 0xBF excluded.
C12_ContinuationHalfOpen ==
  \A t \in Turns :
    Decoded(t) => \A k \in 2..Len(t.bytes) : t.bytes[k] \in 128..190

\* C12, amended: every continuation byte of an accepted multi-byte sequence
\* lies in [0x80,0xBF], 0xBF included; a sequence with a continuation byte
\* outside it is rejected and the call fails with
\* CborErrorInvalidUtf8TextString; a two-byte form is rejected for no other
\* reason than its continuation byte.
C12_ContinuationRange ==
  \A t \in Turns :
    /\ \A k \in 2..Len(t.bytes) : t.bytes[k] \notin 128..191 => t.kind = "invalid"
    /\ t.kind = "invalid" =>
         /\ fault.kind = "utf8"
         /\ fault.err = "CborErrorInvalidUtf8TextString"
         /\ Done => ret = "CborErrorInvalidUtf8TextString"
    /\ (t.kind = "invalid" /\ Len(t.bytes) = 2 /\ t.bytes[1] \in 194..223) =>
         t.bytes[2] \notin 128..191

\* A four-byte form that ends with 0xBF was accepted.
C12_Witness ==
  \E t \in Turns : Decoded(t) /\ t.bytes = <<240, 159, 152, 191>> /\ t.uc = 128575


\* What the specification has written for one character c < 0x80.
AsciiRendering(c) ==
  CASE c = 8 -> <<"\\", "b">>
    [] c = 12 -> <<"\\", "f">>
    [] c = 10 -> <<"\\", "n">>
    [] c = 13 -> <<"\\", "r">>
    [] c = 9 -> <<"\\", "t">>
    [] c = 34 -> <<"\\", "\"">>
    [] c = 92 -> <<"\\", "\\">>
    [] c \in 32..126 -> <<Chr(c)>>
    [] OTHER -> <<"\\", "u">> \o Hex4(c)

RECURSIVE AsciiRenderings(_, _)
AsciiRenderings(b, i) ==
  IF i > Len(b) THEN <<>> ELSE AsciiRendering(b[i]) \o AsciiRenderings(b, i + 1)

\* C13: a text string of characters below 0x80 is written, between quotes,
\* as one rendering per byte: the byte itself for 0x20..0x7E other than the
\* quote and the backslash, the two-character escapes for 0x08, 0x0C, 0x0A,
\* 0x0D, 0x09, the quote and the backslash, and \uXXXX with the four
\* hexadecimal digits of the code point for every other byte.
C13_AsciiEscapes ==
  (TextRun /\ \A i \in 1..Len(buf[1].b) : buf[1].b[i] < 128) =>
    /\ ret = CborNoError
    /\ out = <<"\"">> \o AsciiRenderings(buf[1].b, 1) \o <<"\"">>


\* C14: a tagged value that is formatted with success is written as the
\* decimal digits of its tag number, "(", the text of the wrapped value and
\* ")", for every tag number and for tags in tags, and its cursor ends
\* behind the wrapped value.
C14_TagRendering ==
  \A c \in Finished :
    (c.type = "CborTagType" /\ c.err = CborNoError) =>
      /\ Len(Children(c)) = 1
      /\ Children(c)[1].tok = c.tok + 1
      /\ Segment(c) = Dec64(buf[c.tok].v) \o <<"(">> \o Segment(Children(c)[1]) \o <<")">>
      /\ c.ptr = ValueEnd(buf, c.tok)


\* What utf8EscapedDump returns and writes for the buffer b from position
\* pos on, with counter n, when every byte behind the buffer is `fill` and
\* the sink accepts every write.
RECURSIVE DumpWith(_, _, _, _, _)
DumpWith(lc, b, pos, n, fill) ==
  IF n = 0 THEN [err |-> CborNoError, text |-> <<>>]
  ELSE LET w4 == [k \in 1..4 |-> IF pos + k <= Len(b) THEN b[pos + k] ELSE fill]
           c == Utf8Char(w4, n - 1)
           w == Fprintf(lc, Utf8Format(c).fmt, Utf8Format(c).args)
       IN  IF c.kind = "invalid"
           THEN [err |-> CborErrorInvalidUtf8TextString, text |-> <<>>]
           ELSE IF w.r < 0 THEN [err |-> CborErrorIO, text |-> <<>>]
           ELSE LET rest == DumpWith(lc, b, pos + c.used, CounterAfter(n, c.used), fill)
                IN  [err |-> rest.err, text |-> w.text \o rest.text]

\* The result and the output of the text string handler in that case.
TextOutcome(lc, b, fill) ==
  LET d == DumpWith(lc, b, 0, Len(b), fill)
  IN  [err |-> d.err,
       text |-> <<"\"">> \o d.text \o (IF d.err = CborNoError THEN <<"\"">> ELSE <<>>)]

\* C15: the result and the output for a well-formed text string are a
\* function of its bytes: every run in which the sink and the iterator do
\* not fail gives what the run gives that finds zero bytes behind the
\* buffer.
C15_Deterministic ==
  (TextRun /\ WellFormedFrom(buf[1].b, 1)) =>
    /\ ret = TextOutcome(libc, buf[1].b, 0).err
    /\ out = TextOutcome(libc, buf[1].b, 0).text


(***************************************************************************)
(* Recursion depth.                                                        *)
(***************************************************************************)
\* The active calls of value_to_pretty below the one of stack[k].
ValueFramesBelow(k) == {j \in 1..(k - 1) : stack[j].fn = "value"}

\* Among them, the array and map handlers that entered their container and
\* have not left it, and the tag handlers whose wrapped value is not done.
EnteredBelow(k) == {j \in ValueFramesBelow(k) : stack[j].pc = "left"}

OpenTagsBelow(k) == {j \in ValueFramesBelow(k) : stack[j].pc = "tagged"}

\* The arrays, maps and tags of the input that enclose the value at t.
Enclosers(b, t) ==
  {i \in 1..(t - 1) : b[i].t \in ContainerTypes \cup {"CborTagType"} /\ ValueEnd(b, i) > t}

\* C16 as the specification states it: while a value is being formatted,
\* the number of active calls of value_to_pretty below its own equals the
\* number of arrays and maps entered and not yet left.
C16_DepthIsContainerNesting ==
  (stack # <<>> /\ Top.fn = "value") =>
    Cardinality(ValueFramesBelow(Len(stack))) = Cardinality(EnteredBelow(Len(stack)))

\* C16, amended: the number of active calls of value_to_pretty below the
\* call for a value equals the number of arrays, maps and tags that enclose
\* the value in the input: the arrays and maps entered and not yet left plus
\* the tags whose wrapped value is being formatted.
C16_DepthIsNesting ==
  \A k \in 1..Len(stack) :
    stack[k].fn = "value" =>
      /\ Cardinality(ValueFramesBelow(k)) = Cardinality(Enclosers(buf, stack[k].tok))
      /\ Cardinality(ValueFramesBelow(k)) =
           Cardinality(EnteredBelow(k)) + Cardinality(OpenTagsBelow(k))

\* A value in a tag in an array is being formatted.
C16_Witness ==
  /\ stack # <<>>
  /\ Top.fn = "value"
  /\ Cardinality(ValueFramesBelow(Len(stack))) = 2
  /\ Cardinality(EnteredBelow(Len(stack))) = 1
  /\ Cardinality(OpenTagsBelow(Len(stack))) = 1


\* The suffix the specification gives a floating-point value.
FloatSuffix(item) ==
  IF item.f.cls \in {"nan", "inf"} THEN <<>>
  ELSE CASE item.t = "CborHalfFloatType" -> <<"f", "1", "6">>
         [] item.t = "CborFloatType" -> <<"f">>
         [] OTHER -> <<>>

\* C17: a finite floating-point value is written with the suffix f16 for a
\* half, f for a single, none for a double, and a NaN with no suffix; a
\* finite whole value whose magnitude is below 2^64 is written as its sign,
\* its integer digits, "." and the suffix (2.0 as "2."), any other value as
\* its %.17g text and the suffix. (The infinities, whose class number
\* depends on the C library, are left aside.)
C17_FloatSuffix ==
  (Done /\ buf[1].t \in FloatTypes /\ buf[1].f.cls # "inf" /\ ~fault.env) =>
    /\ ret = CborNoError
    /\ out = IF buf[1].f.whole
             THEN (IF buf[1].neg THEN <<"-">> ELSE <<>>) \o Dec64(buf[1].v) \o <<".">>
                  \o FloatSuffix(buf[1])
             ELSE buf[1].f.g \o FloatSuffix(buf[1])


\* C18: every turn of utf8EscapedDump's loop finds the counter at the length
\* of the buffer less the bytes consumed so far, continuation bytes
\* included, starts where the turn before it stopped, and reads only bytes
\* of the buffer.
C18_ReadsWithinBuffer ==
  \A k \in 1..Len(heap) :
    \A i \in 1..Len(heap[k].turns) :
      LET t == heap[k].turns[i]
      IN  /\ t.n = Len(heap[k].b) - t.pos
          /\ t.pos + Len(t.bytes) <= Len(heap[k].b)
          /\ i > 1 => t.pos = heap[k].turns[i - 1].pos + Len(heap[k].turns[i - 1].bytes)


(***************************************************************************)
(* Termination.                                                            *)
(***************************************************************************)
\* Every step that can be taken is taken: the formatter runs on its own
\* thread and no call of it waits for anything.
FairSpec == Spec /\ WF_vars(Next)

\* The values of the input: the items of the top-level value, Breaks aside.
ValueCount == Cardinality({i \in 1..(ValueEnd(buf, 1) - 1) : buf[i].t # "Break"})

\* The loops make progress: a call that returns with success has moved its
\* cursor forward, there are no more calls than values, each turn of the
\* text loop counts n down, and each turn of the container loop starts at
\* or behind the place where the turn before it stopped.
Progress ==
  /\ ncalls <= ValueCount
  /\ \A c \in Finished : c.err = CborNoError => c.ptr > c.tok
  /\ \A k \in 1..Len(heap) : Len(heap[k].turns) <= Len(heap[k].b)
  /\ \A j \in 1..Len(stack) :
       (stack[j].fn = "value" /\ stack[j].pc = "dump"
          /\ stack[j].type = "CborTextStringType") =>
         stack[j].n + Len(heap[stack[j].buffer].turns) = Len(heap[stack[j].buffer].b)
  /\ \A i, j \in 1..Len(calls) :
       (i < j /\ calls[i].parent = calls[j].parent) => calls[i].ptr <= calls[j].tok

\* C19: every call of the formatter ends, with success or with an error,
\* and on the way the loops make progress and the number of calls of
\* value_to_pretty stays within the number of values of the input.
C19_Terminates == <>Done /\ []Progress

\* A run over nested containers and a tag ended with success after as many
\* calls as the input has values.
C19_Witness == Done /\ ret = CborNoError /\ ncalls = ValueCount /\ ncalls >= 6

=============================================================================
